---- MODULE Spec2Model ----
(***************************************************************************)
(* Model of the data-trust verification pipeline of wenchang-data:         *)
(*   src/standards/verification_middleware.py  (VerificationMiddleware)    *)
(*   src/standards/cross_validator.py          (CrossValidator)            *)
(*                                                                         *)
(* Strings are sequences of characters.  A printable ASCII character is    *)
(* the one-character string itself; any other character is the token       *)
(* "Uxxxx" of its code point (U6587 U521B is "wenchuang").  Python values  *)
(* are tagged records: str, none, bool, list, dict (a dict is the ordered  *)
(* sequence of its items, as Python dicts keep insertion order).           *)
(***************************************************************************)
EXTENDS Integers, Sequences, FiniteSets, TLC

(***************************************************************************)
(* Strings                                                                 *)
(***************************************************************************)
Chars(s) == [i \in 1..Len(s) |-> SubSeq(s, i, i)]

\* Python: sub in s  (both str)
Contains(sub, s) ==
    \E i \in 0..(Len(s) - Len(sub)) : SubSeq(s, i + 1, i + Len(sub)) = sub

\* Python: s.startswith(p)
StartsWith(s, p) == Len(p) <= Len(s) /\ SubSeq(s, 1, Len(p)) = p

\* Python: s[:n]
Take(s, n) == SubSeq(s, 1, IF Len(s) < n THEN Len(s) ELSE n)

\* Python: s.find(c, start) for a one-character c, start counted from 0;
\* -1 when absent.
Find(s, c, start) ==
    LET hits == {i \in (start + 1)..Len(s) : s[i] = c}
    IN  IF hits = {} THEN -1
        ELSE (CHOOSE i \in hits : \A j \in hits : i <= j) - 1

UpperLetters == Chars("ABCDEFGHIJKLMNOPQRSTUVWXYZ")
LowerLetters == Chars("abcdefghijklmnopqrstuvwxyz")
Digits == Chars("0123456789")

LowerChar(c) ==
    IF \E i \in 1..26 : UpperLetters[i] = c
    THEN LowerLetters[CHOOSE i \in 1..26 : UpperLetters[i] = c]
    ELSE c

\* Python: s.lower()  (the characters of the model other than A-Z have no case)
Lower(s) == [i \in 1..Len(s) |-> LowerChar(s[i])]

\* Python: s * n
Repeat(s, n) ==
    IF n <= 0 \/ s = <<>> THEN <<>>
    ELSE [i \in 1..(n * Len(s)) |-> s[((i - 1) % Len(s)) + 1]]

(***************************************************************************)
(* Python values                                                           *)
(***************************************************************************)
None == [t |-> "none"]
Str(s) == [t |-> "str", s |-> s]
Bool(b) == [t |-> "bool", b |-> b]
List(elems) == [t |-> "list", elems |-> elems]
Dict(items) == [t |-> "dict", items |-> items]
Item(k, v) == [k |-> k, v |-> v]
EmptyStr == Str(<<>>)

\* Python: bool(v)
Truthy(v) ==
    CASE v.t = "none" -> FALSE
      [] v.t = "bool" -> v.b
      [] v.t = "str" -> v.s # <<>>
      [] v.t = "list" -> v.elems # <<>>
      [] v.t = "dict" -> v.items # <<>>

\* Python: k in d  (d a dict)
HasKey(d, k) == \E i \in 1..Len(d.items) : d.items[i].k = k

KeyIndex(d, k) == CHOOSE i \in 1..Len(d.items) : d.items[i].k = k

\* Python: d.get(k, default)
Get(d, k, default) ==
    IF HasKey(d, k) THEN d.items[KeyIndex(d, k)].v ELSE default

\* Python: d.get(k)
GetOrNone(d, k) == Get(d, k, None)

\* a slip: the record is rebuilt around the new entry, result = {k: v}
SetItem_rebuild(d, k, v) == Dict(<<Item(k, v)>>)

\* Python: d[k] = v  (an existing key keeps its place, a new one goes last)
SetItem(d, k, v) ==
    IF HasKey(d, k)
    THEN Dict([d.items EXCEPT ![KeyIndex(d, k)] = Item(k, v)])
    ELSE Dict(Append(d.items, Item(k, v)))

\* Python: pattern in v raises TypeError unless v is a container
Iterable(v) == v.t \in {"str", "list", "dict"}

\* Python: pattern in v, for a str pattern and an iterable v
PyIn(pattern, v) ==
    CASE v.t = "str" -> Contains(pattern, v.s)
      [] v.t = "list" -> \E i \in 1..Len(v.elems) : v.elems[i] = Str(pattern)
      [] v.t = "dict" -> HasKey(v, pattern)
      [] OTHER -> FALSE

(***************************************************************************)
(* json.dumps(value, ensure_ascii=False)                                   *)
(***************************************************************************)
DQ == <<"\"">>
BS == <<"\\">>

\* the characters of the model that JSON escapes: " and \
Escaped(c) == c = "\"" \/ c = "\\"

\* the string with a backslash put before each escaped character: the
\* character s[i] lands at i plus the number of escaped characters up to it
EscapeJson(s) ==
    LET esc == {k \in 1..Len(s) : Escaped(s[k])}
        at(i) == i + Cardinality({k \in esc : k <= i})
    IN  IF esc = {} THEN s
        ELSE [j \in 1..(Len(s) + Cardinality(esc)) |->
                 IF \E i \in 1..Len(s) : at(i) = j
                 THEN s[CHOOSE i \in 1..Len(s) : at(i) = j]
                 ELSE "\\"]

RECURSIVE json_dumps(_)
RECURSIVE dumps_elems(_)
RECURSIVE dumps_items(_)

dumps_elems(es) ==
    IF es = <<>> THEN <<>>
    ELSE json_dumps(Head(es))
         \o (IF Len(es) > 1 THEN Chars(", ") \o dumps_elems(Tail(es)) ELSE <<>>)

dumps_items(its) ==
    IF its = <<>> THEN <<>>
    ELSE DQ \o EscapeJson(Head(its).k) \o DQ \o Chars(": ")
         \o json_dumps(Head(its).v)
         \o (IF Len(its) > 1 THEN Chars(", ") \o dumps_items(Tail(its)) ELSE <<>>)

json_dumps(v) ==
    CASE v.t = "none" -> Chars("null")
      [] v.t = "bool" -> IF v.b THEN Chars("true") ELSE Chars("false")
      [] v.t = "str" -> DQ \o EscapeJson(v.s) \o DQ
      [] v.t = "list" -> Chars("[") \o dumps_elems(v.elems) \o Chars("]")
      [] v.t = "dict" -> Chars("{") \o dumps_items(v.items) \o Chars("}")

(***************************************************************************)
(* Literals of verification_middleware.py                                  *)
(***************************************************************************)
K_name == Chars("name")
K_title == Chars("title")
K_category == Chars("category")
K_region == Chars("region")
K_kpi == Chars("kpi")
K_type == Chars("type")
K_verified == Chars("verified")
K_sources == Chars("sources")
K_source_url == Chars("source_url")
K_doc_number == Chars("doc_number")
K_url == Chars("url")
K_verification == Chars("_verification")
K_status == Chars("status")
K_level == Chars("level")
K_errors == Chars("errors")
K_timestamp == Chars("timestamp")

\* wenchuang pinpai, wenlv zongheti, feiyi huohua, shuzi wenchuang,
\* wenchuang jiequ, {city}, {region}, mou, shili, ceshi
template_patterns ==
    << <<"U6587", "U521B", "U54C1", "U724C">>,
       <<"U6587", "U65C5", "U7EFC", "U5408", "U4F53">>,
       <<"U975E", "U9057", "U6D3B", "U5316">>,
       <<"U6570", "U5B57", "U6587", "U521B">>,
       <<"U6587", "U521B", "U8857", "U533A">>,
       Chars("{city}"),
       Chars("{region}"),
       <<"U67D0">>,
       <<"U793A", "U4F8B">>,
       <<"U6D4B", "U8BD5">> >>

\* keneng, dagai, yexu, guji, yinggai, jushuo
vague_words ==
    << <<"U53EF", "U80FD">>, <<"U5927", "U6982">>, <<"U4E5F", "U8BB8">>,
       <<"U4F30", "U8BA1">>, <<"U5E94", "U8BE5">>, <<"U636E", "U8BF4">> >>

\* wan (ten thousand), yi (hundred million), laiyuan (source), zhengce (policy)
Wan == <<"U4E07">>
Yi == <<"U4EBF">>
LaiYuan == <<"U6765", "U6E90">>
ZhengCe == <<"U653F", "U7B56">>
SourceWord == Chars("source")
RealBrand == Chars("real_brand")

\* f"yisi AI shengcheng/muban shuju: baohan'{pattern}'"
TemplateMsg(pattern) ==
    <<"U7591", "U4F3C", "A", "I", "U751F", "U6210", "/", "U6A21", "U677F",
      "U6570", "U636E", ":", " ", "U5305", "U542B", "'">> \o pattern \o <<"'">>

\* f"baohan mohu biaoshu: '{word}'"
VagueMsg(word) ==
    <<"U5305", "U542B", "U6A21", "U7CCA", "U8868", "U8FF0", ":", " ", "'">>
    \o word \o <<"'">>

\* f"KPI shuju'{key}'queshao laiyuan biaozhu"
KpiMsg(key) ==
    <<"K", "P", "I", "U6570", "U636E", "'">> \o key
    \o <<"'", "U7F3A", "U5C11", "U6765", "U6E90", "U6807", "U6CE8">>

\* f"queshao bitian ziduan: {field}"
RequiredMsg(field) ==
    <<"U7F3A", "U5C11", "U5FC5", "U586B", "U5B57", "U6BB5", ":", " ">> \o field

\* "zhengce wenjian bixu tigong wenhao huo laiyuan lianjie"
PolicyMsg ==
    <<"U653F", "U7B56", "U6587", "U4EF6", "U5FC5", "U987B", "U63D0", "U4F9B",
      "U6587", "U53F7", "U6216", "U6765", "U6E90", "U94FE", "U63A5">>

\* "queshao shuju laiyuan xinxi"
NoSourceMsg ==
    <<"U7F3A", "U5C11", "U6570", "U636E", "U6765", "U6E90", "U4FE1", "U606F">>

\* "laiyuan URL geshi cuowu"
BadUrlMsg ==
    <<"U6765", "U6E90", "U", "R", "L", "U683C", "U5F0F", "U9519", "U8BEF">>

(***************************************************************************)
(* VerificationMiddleware: the three checks and verify_data                *)
(* A check returns [exc, errors, warnings]; exc is "none" or the Python    *)
(* exception the check raises, and then errors and warnings are not read.  *)
(***************************************************************************)
Findings(errors, warnings) ==
    [exc |-> "none", errors |-> errors, warnings |-> warnings]

Raises(e) == [exc |-> e, errors |-> <<>>, warnings |-> <<>>]

\* a slip: only the 'wan' marker is looked for
has_unit_marker_wan(value) == value.t = "str" /\ Contains(Wan, value.s)

\* line 117: isinstance(value, str) and ('wan' in value or 'yi' in value)
has_unit_marker(value) ==
    value.t = "str" /\ (Contains(Wan, value.s) \/ Contains(Yi, value.s))

_check_hallucination(data) ==
    LET name == Get(data, K_name, Get(data, K_title, EmptyStr))
        data_str == json_dumps(data)
        hits == SelectSeq(template_patterns, LAMBDA p : PyIn(p, name))
        errors == [i \in 1..Len(hits) |-> TemplateMsg(hits[i])]
        vague == SelectSeq(vague_words, LAMBDA w : Contains(w, data_str))
        vague_warnings == [i \in 1..Len(vague) |-> VagueMsg(vague[i])]
        kpi == Get(data, K_kpi, None)
        flagged ==
            IF HasKey(data, K_kpi) /\ kpi.t = "dict"
            THEN SelectSeq(kpi.items,
                     LAMBDA it : /\ has_unit_marker(it.v)
                                 /\ ~Contains(LaiYuan, data_str)
                                 /\ ~Contains(SourceWord, data_str))
            ELSE <<>>
        kpi_warnings == [i \in 1..Len(flagged) |-> KpiMsg(flagged[i].k)]
    IN  IF ~Iterable(name) THEN Raises("TypeError")
        ELSE Findings(errors, vague_warnings \o kpi_warnings)

required == <<K_name, K_region, K_category>>

_check_required_fields(data) ==
    LET missing ==
            IF HasKey(data, K_category)
            THEN SelectSeq(required, LAMBDA f : ~Truthy(GetOrNone(data, f)))
            ELSE <<>>
        brand_errors == [i \in 1..Len(missing) |-> RequiredMsg(missing[i])]
        category == Get(data, K_category, EmptyStr)
        policy_errors ==
            IF /\ HasKey(data, K_title)
               /\ PyIn(ZhengCe, category)
               /\ ~Truthy(GetOrNone(data, K_doc_number))
               /\ ~Truthy(GetOrNone(data, K_source_url))
            THEN <<PolicyMsg>>
            ELSE <<>>
    IN  IF HasKey(data, K_title) /\ ~Iterable(category) THEN Raises("TypeError")
        ELSE Findings(brand_errors \o policy_errors, <<>>)

_check_sources(data) ==
    LET has_source ==
            \/ Truthy(GetOrNone(data, K_source_url))
            \/ Truthy(GetOrNone(data, K_sources))
            \/ GetOrNone(data, K_type) = Str(RealBrand)
            \/ Truthy(GetOrNone(data, K_verified))
        warnings == IF has_source THEN <<>> ELSE <<NoSourceMsg>>
        source_url == Get(data, K_source_url, EmptyStr)
        errors ==
            IF /\ Truthy(source_url)
               /\ ~StartsWith(source_url.s, Chars("http://"))
               /\ ~StartsWith(source_url.s, Chars("https://"))
            THEN <<BadUrlMsg>>
            ELSE <<>>
    IN  IF Truthy(source_url) /\ source_url.t # "str" THEN Raises("AttributeError")
        ELSE Findings(errors, warnings)

\* a slip: warnings are fatal too
verdict_level_strict(errors, warnings) ==
    IF errors # <<>> \/ warnings # <<>> THEN "REJECTED" ELSE "A"

\* lines 75-80: the level of a verdict
verdict_level(errors, warnings) ==
    IF errors # <<>> THEN "REJECTED"
    ELSE IF warnings # <<>> THEN "CONDITIONAL"
    ELSE "A"

\* A verdict is [exc |-> "none", passed, level, errors, warnings]; a call that
\* raises is [exc |-> the exception].
verify_data(data) ==
    LET h == _check_hallucination(data)
        f == IF HasKey(data, K_name) \/ HasKey(data, K_title)
             THEN _check_required_fields(data)
             ELSE Findings(<<>>, <<>>)
        s == _check_sources(data)
        errors == h.errors \o f.errors \o s.errors
        warnings == h.warnings \o f.warnings \o s.warnings
    IN  IF h.exc # "none" THEN [exc |-> h.exc]
        ELSE IF f.exc # "none" THEN [exc |-> f.exc]
        ELSE IF s.exc # "none" THEN [exc |-> s.exc]
        ELSE [exc |-> "none",
              passed |-> Len(errors) = 0,
              level |-> verdict_level(errors, warnings),
              errors |-> errors,
              warnings |-> warnings]

PreviewLen == 200

\* a slip: the slice is forgotten
preview_full(result) == json_dumps(result)

\* line 33: json.dumps(result, ensure_ascii=False)[:200]
preview(result) == Take(json_dumps(result), PreviewLen)

\* validate_required.wrapper: result is what func returned, strict is
\* self.strict_mode, now is datetime.now().isoformat().  The outcome is
\* [exc |-> "none", ret] or the raised exception; a ValueError carries the
\* two values its message interpolates.
wrapper(result, strict, now) ==
    IF result.t # "dict" THEN [exc |-> "none", ret |-> result]
    ELSE LET validation_result == verify_data(result)
         IN  IF validation_result.exc # "none"
             THEN [exc |-> validation_result.exc]
             ELSE IF ~validation_result.passed
             THEN IF strict
                  THEN [exc |-> "ValueError",
                        errors |-> validation_result.errors,
                        preview |-> preview(result)]
                  ELSE [exc |-> "none",
                        ret |-> SetItem(result, K_verification, Dict(<<
                            Item(K_status, Str(Chars("PENDING"))),
                            Item(K_errors,
                                 List([i \in 1..Len(validation_result.errors) |->
                                          Str(validation_result.errors[i])])),
                            Item(K_timestamp, Str(now)) >>))]
             ELSE [exc |-> "none",
                   ret |-> SetItem(result, K_verification, Dict(<<
                       Item(K_status, Str(Chars("VERIFIED"))),
                       Item(K_level, Str(Chars(validation_result.level))),
                       Item(K_timestamp, Str(now)) >>))]

(***************************************************************************)
(* VerificationReporter                                                    *)
(***************************************************************************)
SummaryLen == 100

\* repr of a str: double quotes when it holds ' and no ", single quotes
\* otherwise; the quote in use and the backslash are escaped.  The
\* characters of the model are all printable.
repr_str(s) ==
    LET has_sq == \E i \in 1..Len(s) : s[i] = "'"
        has_dq == \E i \in 1..Len(s) : s[i] = "\""
        q == IF has_sq /\ ~has_dq THEN "\"" ELSE "'"
        esc == {k \in 1..Len(s) : s[k] = q \/ s[k] = "\\"}
        at(i) == i + Cardinality({k \in esc : k <= i})
        body == IF esc = {} THEN s
                ELSE [j \in 1..(Len(s) + Cardinality(esc)) |->
                         IF \E i \in 1..Len(s) : at(i) = j
                         THEN s[CHOOSE i \in 1..Len(s) : at(i) = j]
                         ELSE "\\"]
    IN  <<q>> \o body \o <<q>>

RECURSIVE py_repr(_)
RECURSIVE repr_elems(_)
RECURSIVE repr_items(_)

repr_elems(es) ==
    IF es = <<>> THEN <<>>
    ELSE py_repr(Head(es))
         \o (IF Len(es) > 1 THEN Chars(", ") \o repr_elems(Tail(es)) ELSE <<>>)

repr_items(its) ==
    IF its = <<>> THEN <<>>
    ELSE repr_str(Head(its).k) \o Chars(": ") \o py_repr(Head(its).v)
         \o (IF Len(its) > 1 THEN Chars(", ") \o repr_items(Tail(its)) ELSE <<>>)

\* repr(v)
py_repr(v) ==
    CASE v.t = "none" -> Chars("None")
      [] v.t = "bool" -> IF v.b THEN Chars("True") ELSE Chars("False")
      [] v.t = "str" -> repr_str(v.s)
      [] v.t = "list" -> Chars("[") \o repr_elems(v.elems) \o Chars("]")
      [] v.t = "dict" -> Chars("{") \o repr_items(v.items) \o Chars("}")

\* str(v)
py_str(v) == IF v.t = "str" THEN v.s ELSE py_repr(v)

RECURSIVE IntStr(_)
\* str(n) of a natural number
IntStr(n) ==
    IF n < 10 THEN <<Digits[n + 1]>>
    ELSE IntStr(n \div 10) \o <<Digits[(n % 10) + 1]>>

(***************************************************************************)
(* The float arithmetic of line 201.  A double has a significand of 53     *)
(* bits, more than an integer of the checker holds, so a significand is a  *)
(* natural number written as limbs of 8 bits, the least significant first, *)
(* without a high zero limb.  A float is [m, e], of value m * 2^e.         *)
(***************************************************************************)
LimbBits == 8
Limb == 256
SignificandBits == 53

BigNormalize(A) ==
    LET used == {i \in 1..Len(A) : A[i] # 0}
    IN  IF used = {} THEN <<>>
        ELSE SubSeq(A, 1, CHOOSE i \in used : \A j \in used : j <= i)

RECURSIVE BigFromInt(_)
BigFromInt(n) ==
    IF n = 0 THEN <<>> ELSE <<n % Limb>> \o BigFromInt(n \div Limb)

RECURSIVE BigToInt(_)
BigToInt(A) ==
    IF A = <<>> THEN 0 ELSE Head(A) + Limb * BigToInt(Tail(A))

RECURSIVE BigMulCarry(_, _, _)
BigMulCarry(A, k, carry) ==
    IF A = <<>> THEN BigFromInt(carry)
    ELSE LET v == Head(A) * k + carry
         IN  <<v % Limb>> \o BigMulCarry(Tail(A), k, v \div Limb)

\* A * k, k a natural number up to a limb
BigMulSmall(A, k) == BigNormalize(BigMulCarry(A, k, 0))

RECURSIVE BigAddSmall(_, _)
\* A + c
BigAddSmall(A, c) ==
    IF c = 0 THEN A
    ELSE IF A = <<>> THEN BigFromInt(c)
    ELSE LET v == Head(A) + c
         IN  <<v % Limb>> \o BigAddSmall(Tail(A), v \div Limb)

RECURSIVE BigDivMod(_, _)
\* quotient and remainder of A by d, 0 < d < 2^23
BigDivMod(A, d) ==
    IF A = <<>> THEN [q |-> <<>>, r |-> 0]
    ELSE LET high == BigDivMod(Tail(A), d)
             v == high.r * Limb + Head(A)
         IN  [q |-> <<v \div d>> \o high.q, r |-> v % d]

\* the number of bits of a natural number below 2^31
BitLen(n) == Cardinality({k \in 0..30 : 2^k <= n})

BigBitLen(A) ==
    IF A = <<>> THEN 0 ELSE LimbBits * (Len(A) - 1) + BitLen(A[Len(A)])

\* A * 2^n
BigShiftLeft(A, n) ==
    BigMulSmall([i \in 1..(n \div LimbBits) |-> 0] \o A, 2^(n % LimbBits))

\* A \div 2^n, and whether a bit that is 1 was shifted out
BigShiftRight(A, n) ==
    LET whole == IF n \div LimbBits < Len(A) THEN n \div LimbBits ELSE Len(A)
        dm == BigDivMod(SubSeq(A, whole + 1, Len(A)), 2^(n % LimbBits))
    IN  [q |-> BigNormalize(dm.q),
         inexact |-> dm.r # 0 \/ \E i \in 1..whole : A[i] # 0]

\* A / 2^n, n > 0, rounded to the nearest integer, a tie to the even one;
\* sticky tells that A itself stands for a little more than A
RoundShift(A, n, sticky) ==
    LET s == BigShiftRight(A, n - 1)
        dm == BigDivMod(s.q, 2)
        q == BigNormalize(dm.q)
        odd == q # <<>> /\ q[1] % 2 = 1
        up == dm.r = 1 /\ (s.inexact \/ sticky \/ odd)
    IN  IF up THEN BigAddSmall(q, 1) ELSE q

FloatZero == [m |-> <<>>, e |-> 0]

\* p / t of two int below 2^23, t > 0: the quotient rounded to 53 bits
float_div(p, t) ==
    IF p = 0 THEN FloatZero
    ELSE LET e == SignificandBits + 2 + BitLen(t) - BitLen(p)
             dm == BigDivMod(BigShiftLeft(BigFromInt(p), e), t)
             q == BigNormalize(dm.q)
             n == BigBitLen(q)
         IN  [m |-> RoundShift(q, n - SignificandBits, dm.r # 0),
              e |-> n - SignificandBits - e]

\* x * k, k an int up to a limb: the product rounded to 53 bits
float_mul(x, k) ==
    LET p == BigMulSmall(x.m, k)
        n == BigBitLen(p)
    IN  IF n <= SignificandBits THEN [m |-> p, e |-> x.e]
        ELSE [m |-> RoundShift(p, n - SignificandBits, FALSE),
              e |-> x.e + n - SignificandBits]

\* f"{x:.1f}" of a float 0 <= x < 2^20: the exact value of x rounded to
\* tenths, a tie to the even one
format_1f(x) ==
    LET tenths == IF x.m = <<>> THEN 0
                  ELSE IF x.e >= 0
                  THEN BigToInt(BigShiftLeft(BigMulSmall(x.m, 10), x.e))
                  ELSE BigToInt(RoundShift(BigMulSmall(x.m, 10), 0 - x.e, FALSE))
    IN  IntStr(tenths \div 10) \o Chars(".") \o IntStr(tenths % 10)

\* line 201: f"{passed/total*100:.1f}%", total > 0
format_pass_rate(passed, total) ==
    format_1f(float_mul(float_div(passed, total), 100)) \o Chars("%")

\* line 201: the rate, "0%" when nothing was added
pass_rate(passed, total) ==
    IF total > 0 THEN format_pass_rate(passed, total) ELSE Chars("0%")

\* add_report(data, result): self.reports after the append
add_report(reports, data, result, now) ==
    Append(reports, [timestamp |-> now,
                     data_summary |-> Take(py_str(data), SummaryLen),
                     result |-> result])

\* generate_summary(): r['result']['passed'] of a result without that key
\* is a KeyError
generate_summary(reports, now) ==
    LET total == Len(reports)
        passed == Cardinality({i \in 1..total : reports[i].result.passed})
        failed == total - passed
    IN  IF \E i \in 1..total : "passed" \notin DOMAIN reports[i].result
        THEN [exc |-> "KeyError"]
        ELSE [exc |-> "none",
              total |-> total,
              passed |-> passed,
              failed |-> failed,
              pass_rate |-> pass_rate(passed, total),
              timestamp |-> now]

(***************************************************************************)
(* urllib.parse.urlparse(url).netloc, for the URLs of the model: a str     *)
(* without leading blanks, control characters or brackets, whose host is   *)
(* ASCII.  A falsy non-str url (None) parses to the bytes netloc b''.      *)
(***************************************************************************)
Bytes(s) == [t |-> "bytes", s |-> s]

scheme_chars ==
    {UpperLetters[i] : i \in 1..26} \cup {LowerLetters[i] : i \in 1..26}
    \cup {Digits[i] : i \in 1..10} \cup {"+", "-", "."}

ascii_letters ==
    {UpperLetters[i] : i \in 1..26} \cup {LowerLetters[i] : i \in 1..26}

\* urlsplit: the url after its scheme, if it has one, is taken off
StripScheme(url) ==
    LET i == Find(url, ":", 0)
    IN  IF /\ i > 0
           /\ url[1] \in ascii_letters
           /\ \A j \in 1..i : url[j] \in scheme_chars
        THEN SubSeq(url, i + 2, Len(url))
        ELSE url

\* _splitnetloc(url, 2): up to the first of / ? #
SplitNetloc(url) ==
    LET ends == {Find(url, c, 2) : c \in {"/", "?", "#"}} \ {-1}
        delim == IF ends = {} THEN Len(url)
                 ELSE CHOOSE e \in ends : \A f \in ends : e <= f
    IN  SubSeq(url, 3, delim)

netloc(url) ==
    LET rest == StripScheme(url)
    IN  IF Take(rest, 2) = Chars("//") THEN SplitNetloc(rest) ELSE <<>>

\* urlparse(url).netloc of a Python value
urlparse_netloc(url) ==
    IF url.t = "str" THEN Str(netloc(url.s)) ELSE Bytes(<<>>)

(***************************************************************************)
(* CrossValidator                                                          *)
(***************************************************************************)
\* validation_rules['brand']['forbidden_patterns']
forbidden_patterns ==
    << <<"U6587", "U521B", "U54C1", "U724C">>,
       <<"U6587", "U65C5", "U7EFC", "U5408", "U4F53">>,
       <<"U975E", "U9057", "U6D3B", "U5316">> >>

\* credibility_levels, in the order of the dict: A, B, C
credibility_levels ==
    << [level |-> "A",
        domains |-> <<Chars("tmall.com"), Chars("jd.com"), Chars("gov.cn")>>],
       [level |-> "B",
        domains |-> <<Chars("36kr.com"), Chars("huxiu.com"),
                      Chars("sina.com.cn"), Chars("qq.com")>>],
       [level |-> "C",
        domains |-> <<Chars("xiaohongshu.com"), Chars("douyin.com"),
                      Chars("zhihu.com")>>] >>

MinSources == 2
MinDomains == 2
TitleLen == 40

\* check_source_independence(sources), sources a list of dicts
check_source_independence(sources) ==
    LET domains == [i \in 1..Len(sources.elems) |->
                       urlparse_netloc(Get(sources.elems[i], K_url, EmptyStr))]
        unique_domains == {domains[i] : i \in 1..Len(domains)}
    IN  [is_independent |-> Cardinality(unique_domains) >= MinDomains,
         unique_domains |-> unique_domains,
         total_sources |-> Len(sources.elems)]

\* check_source_credibility(url), url a str
check_source_credibility(url) ==
    LET domain == Lower(netloc(url))
        matches(l) == \E k \in 1..Len(credibility_levels[l].domains) :
                          Contains(credibility_levels[l].domains[k], domain)
        found == {l \in 1..Len(credibility_levels) : matches(l)}
    IN  IF found = {} THEN "D"
        ELSE credibility_levels[CHOOSE l \in found : \A m \in found : l <= m].level

\* line 105: all(result['checks'].values())
brand_is_valid(checks) == \A c \in DOMAIN checks : checks[c]

\* validate_brand_cross(brand_name, sources): sources is a list of dicts, or
\* a value without len() such as None
validate_brand_cross(brand_name, sources) ==
    IF sources.t # "list" THEN [exc |-> "TypeError"]
    ELSE
    LET urls == [i \in 1..Len(sources.elems) |->
                    Get(sources.elems[i], K_url, EmptyStr)]
        \* urlparse of a truthy url that is no str has no decode()
        no_decode == \E i \in 1..Len(urls) :
                         urls[i].t # "str" /\ Truthy(urls[i])
        \* a falsy url that is no str (None) parses to bytes, and
        \* `d in domain` of check_source_credibility is then a TypeError
        bytes_domain == \E i \in 1..Len(urls) : urls[i].t # "str"
        independence == check_source_independence(sources)
        credibility_scores ==
            [i \in 1..Len(urls) |-> check_source_credibility(urls[i].s)]
        checks ==
            [source_count |-> Len(sources.elems) >= MinSources,
             independence |-> independence.is_independent,
             has_credible_source |->
                 \E i \in 1..Len(credibility_scores) :
                     credibility_scores[i] \in {"A", "B"},
             not_template |->
                 ~\E k \in 1..Len(forbidden_patterns) :
                      PyIn(forbidden_patterns[k], brand_name)]
    IN  IF no_decode THEN [exc |-> "AttributeError"]
        ELSE IF bytes_domain THEN [exc |-> "TypeError"]
        ELSE IF ~Iterable(brand_name) THEN [exc |-> "TypeError"]
        ELSE [exc |-> "none",
              brand |-> brand_name,
              is_valid |-> brand_is_valid(checks),
              checks |-> checks,
              domain_analysis |-> independence,
              credibility_scores |-> credibility_scores]

\* guanyu cujin, guanyu jiakuai, guanyu tuidong, guanyu zhichi
policy_template_patterns ==
    << <<"U5173", "U4E8E", "U4FC3", "U8FDB">>,
       <<"U5173", "U4E8E", "U52A0", "U5FEB">>,
       <<"U5173", "U4E8E", "U63A8", "U52A8">>,
       <<"U5173", "U4E8E", "U652F", "U6301">> >>

GovCn == Chars("gov.cn")

\* a slip: the brand rule, all(result['checks'].values()), used for policies
policy_is_valid_all(checks) == \A c \in DOMAIN checks : checks[c]

\* line 139: has_doc_number or is_gov_source
policy_is_valid(checks) == checks.has_doc_number \/ checks.is_gov_source

\* validate_policy_cross(policy_data), policy_data a dict
validate_policy_cross(policy_data) ==
    LET title == Get(policy_data, K_title, EmptyStr)
        doc_number == Get(policy_data, K_doc_number, EmptyStr)
        source_url == Get(policy_data, K_source_url, EmptyStr)
        is_gov == IF Truthy(source_url)
                  THEN Contains(GovCn, Lower(source_url.s))
                  ELSE FALSE
        first_two == Take(policy_template_patterns, 2)
        checks ==
            [has_doc_number |-> Truthy(doc_number),
             has_source_url |-> Truthy(source_url),
             is_gov_source |-> is_gov,
             not_template |->
                 ~\A k \in 1..Len(first_two) : PyIn(first_two[k], title)]
    IN  IF title.t \notin {"str", "list"} THEN [exc |-> "TypeError"]
        ELSE IF Truthy(source_url) /\ source_url.t # "str"
        THEN [exc |-> "AttributeError"]
        ELSE [exc |-> "none",
              title |-> IF title.t = "str" THEN Str(Take(title.s, TitleLen))
                        ELSE List(Take(title.elems, TitleLen)),
              is_valid |-> policy_is_valid(checks),
              checks |-> checks]

T_brand == Chars("brand")
T_policy == Chars("policy")

\* the elements a for loop draws from a value that has len(): the elements
\* of a list, the characters of a str, the keys of a dict
IterElems(v) ==
    CASE v.t = "list" -> v.elems
      [] v.t = "str" -> [i \in 1..Len(v.s) |-> Str(<<v.s[i]>>)]
      [] v.t = "dict" -> [i \in 1..Len(v.items) |-> Str(v.items[i].k)]

\* lines 157-165: the verdict of one item, "skip" for the `continue` of an
\* unknown data_type; item.get of a value that is no dict is an
\* AttributeError
validate_item(item, data_type) ==
    IF data_type = Str(T_brand)
    THEN IF item.t # "dict" THEN [exc |-> "AttributeError"]
         ELSE validate_brand_cross(Get(item, K_name, EmptyStr),
                                   Get(item, K_sources, List(<<>>)))
    ELSE IF data_type = Str(T_policy)
    THEN IF item.t # "dict" THEN [exc |-> "AttributeError"]
         ELSE validate_policy_cross(item)
    ELSE [exc |-> "skip"]

\* generate_validation_report(items, data_type); data_type defaults to
\* 'brand'.  The first item whose validation raises ends the call.
generate_validation_report(items, data_type) ==
    IF ~Iterable(items) THEN [exc |-> "TypeError"]
    ELSE
    LET elems == IterElems(items)
        results == [i \in 1..Len(elems) |-> validate_item(elems[i], data_type)]
        raised == {i \in 1..Len(elems) : results[i].exc \notin {"none", "skip"}}
        counted == SelectSeq(results, LAMBDA r : r.exc = "none")
    IN  IF raised # {}
        THEN [exc |-> results[CHOOSE i \in raised : \A j \in raised : i <= j].exc]
        ELSE [exc |-> "none",
              data_type |-> data_type,
              total |-> Len(elems),
              passed |-> Cardinality({i \in 1..Len(counted) : counted[i].is_valid}),
              failed |-> Cardinality({i \in 1..Len(counted) : ~counted[i].is_valid}),
              details |-> counted]

(***************************************************************************)
(* Inputs: the records, brands and policies a caller hands to the          *)
(* pipeline.  A field is absent, null, empty or holds a value.             *)
(***************************************************************************)
MaxKpi == 2
MaxSources == 2
LongRepeat == 60

Absent == [t |-> "absent"]

\* the dict of the items whose value is not Absent
MkDict(items) == Dict(SelectSeq(items, LAMBDA it : it.v.t # "absent"))

\* paopao mate (Pop Mart), gugong taobao, beijing wenchuang pinpai,
\* beijing shi, chaowan manghe, wenhua zhengce
PopMart == <<"U6CE1", "U6CE1", "U739B", "U7279">>
GugongTaobao == <<"U6545", "U5BAB", "U6DD8", "U5B9D">>
BeijingBrand == <<"U5317", "U4EAC", "U6587", "U521B", "U54C1", "U724C">>
BeijingShi == <<"U5317", "U4EAC", "U5E02">>
TrendyToy == <<"U6F6E", "U73A9", "U76F2", "U76D2">>
CulturePolicy == <<"U6587", "U5316", "U653F", "U7B56">>
\* guanyu cujin wenhua chanye fazhan de yijian
PolicyTitle ==
    <<"U5173", "U4E8E", "U4FC3", "U8FDB", "U6587", "U5316", "U4EA7", "U4E1A",
      "U53D1", "U5C55", "U7684", "U610F", "U89C1">>
\* guanyu cujin he guanyu jiakuai wenchuang fazhan de tongzhi
StockTitle ==
    <<"U5173", "U4E8E", "U4FC3", "U8FDB", "U548C", "U5173", "U4E8E", "U52A0",
      "U5FEB", "U6587", "U521B", "U53D1", "U5C55", "U7684", "U901A", "U77E5">>
\* guofa [2021] 1 hao
DocNumber == <<"U56FD", "U53D1", "U3014", "2", "0", "2", "1", "U3015", "1", "U53F7">>
TmallUrl == Chars("https://gugong.tmall.com")

\* revenue: 10 yi+, stores: 300, users: guji 5 wan, reach: 1 wan
KpiEntries ==
    << Item(Chars("revenue"), Str(<<"1", "0", "U4EBF", "+">>)),
       Item(Chars("stores"), Str(Chars("300"))),
       Item(Chars("users"), Str(<<"U4F30", "U8BA1", "5", "U4E07">>)),
       Item(Chars("reach"), Str(<<"1", "U4E07">>)),
       Item(Chars("fans"), None) >>

NameOpts == {Absent, None, Str(PopMart), Str(BeijingBrand)}
TitleOpts == {Absent, Str(PolicyTitle)}
RegionOpts == {Absent, Str(BeijingShi)}
CategoryOpts == {Absent, None, Str(TrendyToy), Str(CulturePolicy)}
KpiOpts ==
    {Absent} \cup
    {Dict(SubSeq(KpiEntries, 1, n)) :
        n \in 0..(IF MaxKpi < Len(KpiEntries) THEN MaxKpi ELSE Len(KpiEntries))}
TypeOpts == {Absent, Str(RealBrand)}
SourceUrlOpts == {Absent, Str(TmallUrl), Str(Chars("gugong.tmall.com"))}

FieldRecords ==
    {MkDict(<<Item(K_name, n), Item(K_title, ti), Item(K_region, r),
              Item(K_category, c), Item(K_kpi, k), Item(K_type, ty),
              Item(K_source_url, u)>>) :
        n \in NameOpts, ti \in TitleOpts, r \in RegionOpts, c \in CategoryOpts,
        k \in KpiOpts, ty \in TypeOpts, u \in SourceUrlOpts}

\* records the field options do not build: an empty record, empty strings,
\* a null title, a name longer than the preview, characters JSON escapes,
\* hedging words, a source list, a verified flag, a document number, and a
\* record that already carries verdict metadata
SpecialRecords ==
    { Dict(<<>>),
      Dict(<<Item(K_name, EmptyStr), Item(K_region, EmptyStr),
             Item(K_category, EmptyStr)>>),
      Dict(<<Item(K_title, None)>>),
      Dict(<<Item(K_name, Str(Repeat(template_patterns[1], LongRepeat))),
             Item(K_region, Str(BeijingShi)), Item(K_category, Str(TrendyToy))>>),
      Dict(<<Item(K_name, Str(<<"U6545", "U5BAB", "\"", "U6DD8", "\\", "U5B9D">>)),
             Item(K_verified, Bool(TRUE))>>),
      Dict(<<Item(K_name, Str(PopMart)),
             Item(Chars("note"), Str(<<"U636E", "U8BF4", "U5F88", "U597D">>)),
             Item(K_sources, List(<<Dict(<<Item(K_url, Str(TmallUrl))>>)>>))>>),
      Dict(<<Item(K_name, Str(PopMart)), Item(K_region, Str(BeijingShi)),
             Item(K_category, Str(TrendyToy)),
             Item(K_kpi, Dict(<<KpiEntries[3]>>)), Item(K_type, Str(RealBrand))>>),
      Dict(<<Item(K_title, Str(PolicyTitle)), Item(K_category, Str(CulturePolicy)),
             Item(K_name, Str(PolicyTitle)), Item(K_region, Str(BeijingShi)),
             Item(K_doc_number, Str(DocNumber))>>),
      Dict(<<Item(K_verification,
                  Dict(<<Item(K_status, Str(Chars("VERIFIED"))),
                         Item(K_level, Str(Chars("A")))>>)),
             Item(K_name, Str(GugongTaobao)), Item(K_type, Str(RealBrand))>>) }

Records == FieldRecords \cup SpecialRecords

\* what a guarded operation may return that is no structured record
Scalars == {None, Str(Chars("ok"))}

\* datetime.now().isoformat()
Timestamps ==
    {Chars("2026-10-30T01:31:49.311090"), Chars("2026-10-30T01:31:50")}

\* a source: no url, a null or empty url, or a url
SourceOpts ==
    { Dict(<<>>),
      Dict(<<Item(K_url, None)>>),
      Dict(<<Item(K_url, EmptyStr)>>),
      Dict(<<Item(K_url, Str(TmallUrl))>>),
      Dict(<<Item(K_url, Str(Chars("https://gugong.tmall.com/shop?id=1")))>>),
      Dict(<<Item(K_url, Str(Chars("https://GUGONG.TMALL.COM")))>>),
      Dict(<<Item(K_url, Str(Chars("https://www.dpm.org.cn")))>>),
      Dict(<<Item(K_url, Str(Chars("https://example.com/1")))>>),
      Dict(<<Item(K_url, Str(Chars("HTTPS://WWW.36KR.com/p")))>>),
      Dict(<<Item(K_url, Str(Chars("zhihu.com/x")))>>),
      Dict(<<Item(K_url, Str(Chars("https://example.com/?ref=jd.com")))>>) }

SourceLists ==
    {None} \cup
    {List(l) : l \in UNION {[1..n -> SourceOpts] : n \in 0..MaxSources}}

BrandNames == {None, EmptyStr, Str(GugongTaobao), Str(BeijingBrand)}

PolicyTitleOpts ==
    {Absent, None, EmptyStr, Str(PolicyTitle), Str(StockTitle),
     Str(Repeat(PolicyTitle, 4))}
DocNumberOpts == {Absent, None, EmptyStr, Str(DocNumber)}
PolicyUrlOpts ==
    {Absent, None, EmptyStr,
     Str(Chars("http://www.GOV.cn/zhengce")),
     Str(Chars("https://www.beijing.gov.cn")),
     Str(Chars("https://example.com/news")),
     Str(Chars("https://example.com/?ref=gov.cn"))}

Policies ==
    {MkDict(<<Item(K_title, ti), Item(K_doc_number, d), Item(K_source_url, u)>>) :
        ti \in PolicyTitleOpts, d \in DocNumberOpts, u \in PolicyUrlOpts}

MaxReports == 3
MaxItems == 2

DpmUrl == Chars("https://www.dpm.org.cn")

\* test_brands, the two brands of the demo of cross_validator.py
DemoBrands ==
    << Dict(<<Item(K_name, Str(GugongTaobao)),
              Item(K_sources,
                   List(<<Dict(<<Item(K_url, Str(TmallUrl)),
                                 Item(K_type, Str(Chars("ecommerce")))>>),
                          Dict(<<Item(K_url, Str(DpmUrl)),
                                 Item(K_type, Str(Chars("official")))>>)>>))>>),
       Dict(<<Item(K_name, Str(BeijingBrand)),
              Item(K_sources,
                   List(<<Dict(<<Item(K_url, Str(Chars("https://example.com/1"))),
                                 Item(K_type, Str(Chars("unknown")))>>)>>))>>) >>

\* what a caller hands to add_report: a record and the verdict verify_data
\* gave for it, or a brand and the verdict of validate_brand_cross
ReportRecords ==
    { Dict(<<Item(K_name, Str(GugongTaobao)), Item(K_region, Str(BeijingShi)),
             Item(K_category, Str(TrendyToy)), Item(K_type, Str(RealBrand)),
             Item(K_source_url, Str(TmallUrl))>>),
      Dict(<<Item(K_name, Str(BeijingBrand)), Item(K_region, Str(BeijingShi)),
             Item(K_category, Str(TrendyToy))>>),
      Dict(<<Item(K_name, Str(<<"i", "t", "'", "s", "\\", "U5B9D">>)),
             Item(K_verified, Bool(TRUE)),
             Item(K_kpi, Dict(<<Item(Chars("fans"), None)>>)),
             Item(K_sources, List(<<>>))>>),
      Dict(<<Item(K_name, Str(Repeat(template_patterns[1], LongRepeat))),
             Item(K_region, Str(BeijingShi)), Item(K_category, Str(TrendyToy))>>) }

ReportPairs ==
    {<<d, verify_data(d)>> : d \in ReportRecords}
    \cup {<<DemoBrands[1],
            validate_brand_cross(DemoBrands[1].items[1].v, DemoBrands[1].items[2].v)>>}

\* the items of a batch: brands, policies, a brand with a null name, and a
\* value that is no record
BatchItems ==
    { DemoBrands[1], DemoBrands[2],
      Dict(<<Item(K_name, Str(PopMart))>>),
      Dict(<<Item(K_title, Str(PolicyTitle)), Item(K_doc_number, Str(DocNumber))>>),
      Dict(<<Item(K_title, Str(StockTitle))>>),
      Dict(<<Item(K_name, None), Item(K_sources, List(<<>>))>>),
      None }

BatchLists ==
    {None} \cup
    {List(l) : l \in UNION {[1..n -> BatchItems] : n \in 0..MaxItems}}

DataTypes == {Str(T_brand), Str(T_policy), Str(Chars("event"))}

Inputs ==
    {[kind |-> "record", args |-> <<r>>] : r \in Records \cup Scalars}
    \cup {[kind |-> "brand", args |-> <<n, l>>] : n \in BrandNames, l \in SourceLists}
    \cup {[kind |-> "policy", args |-> <<p>>] : p \in Policies}
    \cup {[kind |-> "reporter", args |-> <<>>]}
    \cup {[kind |-> "batch", args |-> <<l, ty>>] : l \in BatchLists, ty \in DataTypes}

(***************************************************************************)
(* The state machine: one caller, one input, the operations applied to it  *)
(***************************************************************************)
VARIABLES
    strict_mode,     \* VerificationMiddleware.strict_mode
    validation_log,  \* VerificationMiddleware.validation_log
    input,           \* the arguments as the caller built them
    data,            \* the argument objects as they are now
    pc,              \* idle, verified, guarded, reverified, brand_done, policy_done,
                     \* summarized, report_done
    outcome,         \* what the last call returned or raised
    first_verdict,   \* the verdict the guard computed, kept for ReVerify
    reports          \* VerificationReporter.reports

vars ==
    <<strict_mode, validation_log, input, data, pc, outcome, first_verdict,
      reports>>

NoOutcome == [exc |-> "unset"]

Init ==
    /\ strict_mode = TRUE
    /\ validation_log = <<>>
    /\ input \in Inputs
    /\ data = input.args
    /\ pc = "idle"
    /\ outcome = NoOutcome
    /\ first_verdict = NoOutcome
    /\ reports = <<>>

\* middleware.strict_mode = b
SetStrictMode(b) ==
    /\ pc = "idle"
    /\ input.kind = "record"
    /\ strict_mode' = b
    /\ UNCHANGED <<validation_log, input, data, pc, outcome, first_verdict, reports>>

\* middleware.verify_data(record)
VerifyData ==
    /\ pc = "idle"
    /\ input.kind = "record"
    /\ data[1].t = "dict"
    /\ outcome' = verify_data(data[1])
    /\ pc' = "verified"
    /\ UNCHANGED <<strict_mode, validation_log, input, data, first_verdict, reports>>

\* a call of the guarded operation; the operation returns data[1], and the
\* wrapper tags that very object
Guard(now) ==
    /\ pc = "idle"
    /\ input.kind = "record"
    /\ outcome' = wrapper(data[1], strict_mode, now)
    /\ data' = IF outcome'.exc = "none" THEN <<outcome'.ret>> ELSE data
    /\ first_verdict' = IF data[1].t = "dict" THEN verify_data(data[1])
                        ELSE NoOutcome
    /\ pc' = "guarded"
    /\ UNCHANGED <<strict_mode, validation_log, input, reports>>

\* middleware.verify_data on the record the guard returned
ReVerify ==
    /\ pc = "guarded"
    /\ outcome.exc = "none"
    /\ data[1].t = "dict"
    /\ outcome' = verify_data(data[1])
    /\ pc' = "reverified"
    /\ UNCHANGED <<strict_mode, validation_log, input, data, first_verdict, reports>>

\* validator.validate_brand_cross(brand_name, sources)
ValidateBrand ==
    /\ pc = "idle"
    /\ input.kind = "brand"
    /\ outcome' = validate_brand_cross(data[1], data[2])
    /\ pc' = "brand_done"
    /\ UNCHANGED <<strict_mode, validation_log, input, data, first_verdict, reports>>

\* validator.validate_policy_cross(policy_data)
ValidatePolicy ==
    /\ pc = "idle"
    /\ input.kind = "policy"
    /\ outcome' = validate_policy_cross(data[1])
    /\ pc' = "policy_done"
    /\ UNCHANGED <<strict_mode, validation_log, input, data, first_verdict, reports>>

\* reporter.add_report(data, result)
AddReport(d, result, now) ==
    /\ input.kind = "reporter"
    /\ Len(reports) < MaxReports
    /\ result.exc = "none"
    /\ reports' = add_report(reports, d, result, now)
    /\ pc' = "idle"
    /\ outcome' = NoOutcome
    /\ UNCHANGED <<strict_mode, validation_log, input, data, first_verdict>>

\* reporter.generate_summary()
GenerateSummary(now) ==
    /\ input.kind = "reporter"
    /\ pc = "idle"
    /\ outcome' = generate_summary(reports, now)
    /\ pc' = "summarized"
    /\ UNCHANGED <<strict_mode, validation_log, input, data, first_verdict, reports>>

\* generate_validation_report(items, data_type)
GenerateReport ==
    /\ pc = "idle"
    /\ input.kind = "batch"
    /\ outcome' = generate_validation_report(data[1], data[2])
    /\ pc' = "report_done"
    /\ UNCHANGED <<strict_mode, validation_log, input, data, first_verdict, reports>>

Next ==
    \/ \E b \in BOOLEAN : SetStrictMode(b)
    \/ VerifyData
    \/ \E now \in Timestamps : Guard(now)
    \/ ReVerify
    \/ ValidateBrand
    \/ ValidatePolicy
    \/ \E p \in ReportPairs, now \in Timestamps : AddReport(p[1], p[2], now)
    \/ \E now \in Timestamps : GenerateSummary(now)
    \/ GenerateReport

Spec == Init /\ [][Next]_vars

(***************************************************************************)
(* Properties                                                              *)
(***************************************************************************)
Record == input.args[1]

IsVerdict(v) == v.exc = "none"

LevelMatches(v) ==
    /\ (v.level = "REJECTED") = (v.errors # <<>>)
    /\ (v.level = "CONDITIONAL") = (v.errors = <<>> /\ v.warnings # <<>>)
    /\ (v.level = "A") = (v.errors = <<>> /\ v.warnings = <<>>)
    /\ v.passed = (v.errors = <<>>)

\* C1: every verdict verify_data returns, called directly, inside the guard
\* or on a tagged record, has level REJECTED iff it has errors, CONDITIONAL
\* iff it has warnings and no errors, A iff it has neither, and passed is
\* true iff it has no errors.
C1_VerdictLevel ==
    /\ (pc \in {"verified", "reverified"} /\ IsVerdict(outcome))
           => LevelMatches(outcome)
    /\ (pc \in {"guarded", "reverified"} /\ IsVerdict(first_verdict))
           => LevelMatches(first_verdict)

\* a verdict with warnings only: CONDITIONAL and passed
C1_Witness ==
    /\ pc = "verified"
    /\ IsVerdict(outcome)
    /\ outcome.errors = <<>>
    /\ outcome.warnings # <<>>
    /\ outcome.level = "CONDITIONAL"
    /\ outcome.passed

\* C2: in strict mode a guarded call whose record gets the level REJECTED
\* raises an error that carries the whole error list and a preview that is
\* the first at most 200 characters of the serialized record, and the record
\* is not handed back nor tagged; a record is returned only when its verdict
\* has no errors.
C2_StrictRejects ==
    (pc = "guarded" /\ strict_mode /\ Record.t = "dict" /\ IsVerdict(first_verdict))
    => /\ first_verdict.level = "REJECTED"
          => /\ outcome.exc = "ValueError"
             /\ outcome.errors = first_verdict.errors
             /\ Len(outcome.preview) <= 200
             /\ outcome.preview
                    = SubSeq(json_dumps(Record), 1, Len(outcome.preview))
             /\ data = input.args
       /\ outcome.exc = "none"
          => /\ first_verdict.errors = <<>>
             /\ first_verdict.level # "REJECTED"

\* a strict rejection of a record whose serialization is longer than the
\* preview
C2_Witness ==
    /\ pc = "guarded"
    /\ strict_mode
    /\ outcome.exc = "ValueError"
    /\ outcome.errors # <<>>
    /\ Len(json_dumps(Record)) > 200
    /\ Len(outcome.preview) = 200

Meta(r) == Get(r, K_verification, None)

IsPending(m, v, ts) ==
    /\ m.t = "dict"
    /\ Get(m, K_status, None) = Str(Chars("PENDING"))
    /\ Get(m, K_errors, None) = List([i \in 1..Len(v.errors) |-> Str(v.errors[i])])
    /\ \E now \in ts : Get(m, K_timestamp, None) = Str(now)

IsVerified(m, v, ts) ==
    /\ m.t = "dict"
    /\ Get(m, K_status, None) = Str(Chars("VERIFIED"))
    /\ Get(m, K_level, None) = Str(Chars(v.level))
    /\ v.level \in {"A", "CONDITIONAL"}
    /\ v.errors = <<>>
    /\ \E now \in ts : Get(m, K_timestamp, None) = Str(now)

\* C3: in permissive mode no guarded call fails: for every record the
\* operation produces the call returns the record, tagged PENDING with its
\* errors and a timestamp when the verdict is REJECTED, and tagged VERIFIED
\* with its level A or CONDITIONAL otherwise.
C3_PermissiveNeverFails ==
    (pc = "guarded" /\ ~strict_mode /\ Record.t = "dict")
    => /\ outcome.exc = "none"
       /\ IsVerdict(first_verdict)
       /\ IF first_verdict.level = "REJECTED"
          THEN IsPending(Meta(outcome.ret), first_verdict, Timestamps)
          ELSE IsVerified(Meta(outcome.ret), first_verdict, Timestamps)

\* C4: verify_data on the record the guard returned, with its _verification
\* entry attached, gives the verdict the guard computed: the same errors,
\* warnings and level.
C4_Idempotent ==
    pc = "reverified"
    => /\ IsVerdict(outcome)
       /\ outcome.errors = first_verdict.errors
       /\ outcome.warnings = first_verdict.warnings
       /\ outcome.level = first_verdict.level

WithoutKey(d, k) == SelectSeq(d.items, LAMBDA it : it.k # k)

\* C5: verify_data leaves the record as it was; the guard changes nothing
\* in the record it returns but the one _verification entry: every other
\* key is there with its value, in its place, and no key is added; a call
\* that raises leaves the record untouched.
C5_Frame ==
    /\ pc = "verified" => data = input.args
    /\ pc = "guarded"
       => IF outcome.exc = "none" /\ Record.t = "dict"
          THEN /\ data[1] = outcome.ret
               /\ WithoutKey(outcome.ret, K_verification)
                      = WithoutKey(Record, K_verification)
               /\ Len(outcome.ret.items)
                      = Len(WithoutKey(Record, K_verification)) + 1
               /\ HasKey(outcome.ret, K_verification)
          ELSE data = input.args

\* the guard tagged a record of several fields
C5_Witness ==
    /\ pc = "guarded"
    /\ outcome.exc = "none"
    /\ Record.t = "dict"
    /\ Len(Record.items) >= 3
    /\ outcome.ret # Record

SourceUrl(src) == Get(src, K_url, EmptyStr).s

\* the host of a network location: what is left, in lower case, when the
\* user information up to the last @ and the port after the : are taken off
HostOf(nl) ==
    LET ats == {i \in 1..Len(nl) : nl[i] = "@"}
        from == IF ats = {} THEN 1
                ELSE 1 + CHOOSE i \in ats : \A j \in ats : j <= i
        hostport == SubSeq(nl, from, Len(nl))
        colon == Find(hostport, ":", 0)
    IN  Lower(IF colon < 0 THEN hostport ELSE SubSeq(hostport, 1, colon))

\* C6: validate_brand_cross returns is_valid = TRUE iff there are at least 2
\* sources, at least 2 distinct hosts among them (sources sharing a host
\* count once), at least one source of tier A or B, and no generic brand
\* phrase in the name; with no source the brand is invalid.
C6_BrandValid ==
    (pc = "brand_done" /\ outcome.exc = "none")
    => LET name == input.args[1].s
           srcs == input.args[2].elems
           hosts == {HostOf(netloc(SourceUrl(srcs[i]))) : i \in 1..Len(srcs)}
           credible == \E i \in 1..Len(srcs) :
                           check_source_credibility(SourceUrl(srcs[i])) \in {"A", "B"}
           generic == \E k \in 1..Len(forbidden_patterns) :
                          Contains(forbidden_patterns[k], name)
       IN  /\ outcome.is_valid
               = (/\ Len(srcs) >= 2
                  /\ Cardinality(hosts) >= 2
                  /\ credible
                  /\ ~generic)
           /\ srcs = <<>> => ~outcome.is_valid

\* C7: validate_policy_cross returns is_valid = (has_doc_number or
\* is_gov_source), whatever has_source_url and not_template are, and a
\* policy with neither a document number nor a source URL is invalid.
C7_PolicyValid ==
    (pc = "policy_done" /\ outcome.exc = "none")
    => LET has_doc == Truthy(GetOrNone(input.args[1], K_doc_number))
           has_url == Truthy(GetOrNone(input.args[1], K_source_url))
       IN  /\ outcome.checks.has_doc_number = has_doc
           /\ outcome.checks.has_source_url = has_url
           /\ outcome.is_valid = (has_doc \/ outcome.checks.is_gov_source)
           /\ (~has_doc /\ ~has_url) => ~outcome.is_valid

\* a policy with a document number is valid although its title is a stock
\* title and it has no source URL
C7_Witness ==
    /\ pc = "policy_done"
    /\ outcome.exc = "none"
    /\ outcome.is_valid
    /\ ~outcome.checks.not_template
    /\ ~outcome.checks.has_source_url

\* C8: is_gov_source is true only when the host of the policy's source URL
\* contains the government domain pattern gov.cn.
C8_GovHost ==
    (pc = "policy_done" /\ outcome.exc = "none" /\ outcome.checks.is_gov_source)
    => Contains(GovCn, Lower(netloc(GetOrNone(input.args[1], K_source_url).s)))

Keys(d) == {d.items[i].k : i \in 1..Len(d.items)}

NonEmptyStr(v) == v.t = "str" /\ v.s # <<>>

\* the record text has no source marker and no hedging word
PlainText(r) ==
    LET data_str == json_dumps(r)
    IN  /\ ~Contains(LaiYuan, data_str)
        /\ ~Contains(SourceWord, data_str)
        /\ \A k \in 1..Len(vague_words) : ~Contains(vague_words[k], data_str)

\* the entries of a kpi mapping whose value is text with a large-number
\* unit marker, wan or yi
Marked(kpi) ==
    {i \in 1..Len(kpi.items) :
        /\ kpi.items[i].v.t = "str"
        /\ \/ Contains(<<"U4E07">>, kpi.items[i].v.s)
           \/ Contains(<<"U4EBF">>, kpi.items[i].v.s)}

\* a record of exactly the fields `keys`: a non-template name, type
\* real_brand, a kpi mapping with one value that carries a unit marker
Scenario3(r, keys) ==
    /\ r.t = "dict"
    /\ Keys(r) = keys
    /\ \A k \in keys \ {K_kpi} : NonEmptyStr(GetOrNone(r, k))
    /\ \A k \in 1..Len(template_patterns) :
           ~Contains(template_patterns[k], GetOrNone(r, K_name).s)
    /\ GetOrNone(r, K_type) = Str(RealBrand)
    /\ GetOrNone(r, K_kpi).t = "dict"
    /\ Cardinality(Marked(GetOrNone(r, K_kpi))) = 1
    /\ PlainText(r)

OneKpiWarning(r, v) ==
    LET kpi == GetOrNone(r, K_kpi)
        i == CHOOSE j \in Marked(kpi) : TRUE
    IN  /\ IsVerdict(v)
        /\ v.errors = <<>>
        /\ v.warnings = <<KpiMsg(kpi.items[i].k)>>
        /\ v.level = "CONDITIONAL"
        /\ v.passed

\* C9 as claimed: a record of only name, category, type = real_brand and a
\* kpi mapping with one marked value, without source text, gets exactly the
\* one KPI warning, no error, level CONDITIONAL and passed = TRUE.
C9_Original ==
    (pc = "verified" /\ Scenario3(Record, {K_name, K_category, K_type, K_kpi}))
    => OneKpiWarning(Record, outcome)

\* C9 as amended: the same record with a non-empty region as well, and no
\* hedging word in its text, gets exactly the one KPI warning, no error,
\* level CONDITIONAL and passed = TRUE.
C9_WithRegion ==
    (pc = "verified"
     /\ Scenario3(Record, {K_name, K_region, K_category, K_type, K_kpi}))
    => OneKpiWarning(Record, outcome)

C9_Witness ==
    /\ pc = "verified"
    /\ Scenario3(Record, {K_name, K_region, K_category, K_type, K_kpi})
    /\ Len(GetOrNone(Record, K_kpi).items) = 2
    /\ outcome.level = "CONDITIONAL"

\* C10: verify_data, validate_brand_cross and validate_policy_cross return
\* for every input whose optional fields are missing, empty or null, and a
\* guarded call fails only by the strict-mode rejection.
C10_Total ==
    /\ pc \in {"verified", "reverified", "brand_done", "policy_done"}
           => outcome.exc = "none"
    /\ pc = "guarded"
           => \/ outcome.exc = "none"
              \/ /\ outcome.exc = "ValueError"
                 /\ strict_mode
                 /\ first_verdict.level = "REJECTED"

\* the number of records a batch submits: len(items)
Submitted == Len(IterElems(data[1]))

\* the summary of the reporter counts every report added, as passed or as
\* failed, and has the rate "0%" when nothing was added
SummaryAdds ==
    pc = "summarized" /\ outcome.exc = "none" =>
        /\ outcome.total = outcome.passed + outcome.failed
        /\ outcome.total = Len(reports)
        /\ (reports = <<>> => outcome.pass_rate = Chars("0%"))

\* the report of a batch counts every item submitted, as passed or as
\* failed, and has one entry of details for each
ReportAdds ==
    pc = "report_done" /\ outcome.exc = "none" =>
        /\ outcome.total = outcome.passed + outcome.failed
        /\ outcome.total = Submitted
        /\ Len(outcome.details) = outcome.total

\* C11: every aggregate report has total = passed + failed and total equal
\* to the number of records submitted: the summary of the reporter after any
\* sequence of add_report calls (with pass_rate "0%" when nothing was
\* added), and the report generate_validation_report returns for any item
\* list and any data_type, whose details have total entries.
C11_Aggregate == SummaryAdds /\ ReportAdds

\* the field is missing from the record or is the empty string
MissingOrEmpty(r, f) == ~HasKey(r, f) \/ Get(r, f, None) = EmptyStr

\* a record with a category key whose name, region or category is missing
\* or empty
Incomplete(r) ==
    /\ r.t = "dict"
    /\ HasKey(r, K_category)
    /\ \E f \in {K_name, K_region, K_category} : MissingOrEmpty(r, f)

\* C12: for every record that has a category key and whose name, region or
\* category is missing or empty, the verdict verify_data returns has at
\* least one error and level REJECTED, and the guard never tags such a
\* record VERIFIED.
C12_Complete ==
    /\ (pc = "verified" /\ Incomplete(Record) /\ outcome.exc = "none") =>
           outcome.errors # <<>> /\ outcome.level = "REJECTED"
    /\ (pc = "guarded" /\ Incomplete(Record) /\ outcome.exc = "none") =>
           Get(Meta(outcome.ret), K_status, None) # Str(Chars("VERIFIED"))

====
